---- MODULE Spec2Model ----
(***************************************************************************)
(* The prime-checking cells of the multiprocessing notebook                *)
(* (src/unnamed/part_000): the serial loop, and the two-queue pipeline in  *)
(* which NBR_PROCESSES worker processes run check_prime(possible_primes_   *)
(* queue, definite_primes_queue) while the main process fills the work     *)
(* queue, injects one FLAG_ALL_DONE per worker and drains the results.     *)
(*                                                                         *)
(* Python objects travelling through the queues are modelled as tagged     *)
(* records: an int n is [int |-> n], a bytes object b"s" is [bytes |-> s], *)
(* so that `n == FLAG_ALL_DONE` is a comparison that is simply false for   *)
(* an int, as in Python.                                                  *)
(***************************************************************************)
EXTENDS Integers, Sequences, FiniteSets, TLC

VARIABLES
    lo, hi,                 \* number_range = range(lo, hi)
    NBR_PROCESSES,          \* the worker count W
    created,                \* which manager.Queue() objects exist
    possible_primes_queue,  \* the Work Queue
    definite_primes_queue,  \* the Result Queue
    primes,                 \* the Coordinator's result list
    processors_indicating_they_have_finished,
    pc,                     \* the Coordinator's position in the cell
    started,                \* len(processes): workers started so far
    possible_prime,         \* the fill loop's next candidate
    stops_put,              \* iterations done of the FLAG_ALL_DONE loop
    wpc,                    \* each worker's position in check_prime
    wn,                     \* each worker's local n
    \* history of the run, read by no step of the program:
    dequeued,               \* the items got from the Work Queue, in order
    stops_got,              \* per worker, the FLAG_ALL_DONE markers it got
    flags_put,              \* per worker, the WORKER_DONE markers it put
    received_values,        \* the non-marker items the Coordinator got
    result_by,              \* per item of the Result Queue, who put it
    got,                    \* every item the Coordinator got, and who put it
    \* settings of a run:
    maxsize,                \* the Work Queue's maxsize (0: unbounded)
    tracing,                \* whether result_by and got are kept
    \* the Pool of a pool.map call (Pool cell, Monte Carlo cells):
    next_task,              \* index of the next task the pool hands out
    holding,                \* per pool process, the index of its task or 0
    \* Pool cell (prime check with pool.map):
    are_primes,             \* pool.map's result list (None: not yet there)
    \* Monte Carlo cells:
    monte_carlo,            \* the cells' variables, by name
    \* prange cell:
    A,                      \* the 1D integer array
    iterated,               \* the loop indices already executed
    partial,                \* per thread, its private copy of s
    combined,               \* the threads whose copy has been combined
    s_prange,               \* prange_test's s after the reduction
    s_range,                \* standard_range_test's s
    \* Cython cells:
    in_flight,              \* per thread, its `sum += i` in progress
    fib                     \* the fib cells: the running call and the results

vars == <<lo, hi, NBR_PROCESSES, created, possible_primes_queue,
          definite_primes_queue, primes,
          processors_indicating_they_have_finished, pc, started,
          possible_prime, stops_put, wpc, wn,
          dequeued, stops_got, flags_put, received_values, result_by, got,
          maxsize, tracing,
          next_task, holding, are_primes,
          monte_carlo,
          A, iterated, partial, combined, s_prange, s_range,
          in_flight, fib>>

\* the state of the notebook's other cells
pool_state == <<next_task, holding>>

pool_cell == <<are_primes>>

monte_carlo_cells == <<monte_carlo>>

\* the Monte Carlo cells' variables
number_samples_in_total == monte_carlo.number_samples_in_total

number_parallel_blocks == monte_carlo.number_parallel_blocks

number_trials_per_process == monte_carlo.number_trials_per_process

\* per pool process, its loop's iterations done
step == monte_carlo.step

\* per pool process, its count
number_trials_in_quarter_circle == monte_carlo.number_trials_in_quarter_circle

\* pool.map's result list (None: not yet there)
number_in_unit_circles == monte_carlo.number_in_unit_circles

\* the quotient, as <<numerator, denominator>>
pi_estimate == monte_carlo.pi_estimate

prange_cell == <<A, iterated, partial, combined, s_prange, s_range>>

cython_cells == <<in_flight, fib>>

\* the locals n, i, a, b of the running fib call
fib_call == fib.call

\* the argument, and what the Python and the Cython fib returned
fib_returned == fib.returned

other_cells ==
    <<pool_state, pool_cell, monte_carlo_cells, prange_cell, cython_cells>>

history == <<dequeued, stops_got, flags_put, received_values, result_by, got>>

(***************************************************************************)
(* Bounds of the explored inputs.                                          *)
(***************************************************************************)
MaxLo == 8      \* ranges start at 1..MaxLo
MaxLen == 3     \* and hold at most MaxLen candidates
MaxW == 4       \* worker counts 0..MaxW

(***************************************************************************)
(* Python values.                                                          *)
(***************************************************************************)
PyInt(n) == [int |-> n]
PyBytes(s) == [bytes |-> s]

FLAG_ALL_DONE == PyBytes("WORK_FINISHED")
FLAG_WORKER_FINISHED_PROCESSING == PyBytes("WORKER_FINISHED_PROCESSING")

\* int(math.sqrt(n)) for n >= 0: the floor of the square root (math.sqrt is
\* exact enough for every n below 2^52), found by Newton's iteration
RECURSIVE NewtonSqrt(_, _)
NewtonSqrt(n, x) ==
    LET y == (x + n \div x) \div 2
    IN  IF y >= x THEN x ELSE NewtonSqrt(n, y)

int_sqrt(n) == IF n = 0 THEN 0 ELSE NewtonSqrt(n, n)

\* math.sqrt(n) raises ValueError (math domain error) for n < 0
sqrt_raises(n) == n < 0

(***************************************************************************)
(* The primality test.                                                     *)
(***************************************************************************)
\* for i in range(start, stop, 2): if n % i == 0: <leave the loop early>
\* TRUE when the loop is left early (a divisor was found), FALSE when the
\* range is exhausted.  range2(start, stop) is the set of the values of
\* range(start, stop, 2): start + 2k for 0 <= k < ceil((stop - start) / 2)
range2(start, stop) ==
    {start + 2 * k : k \in 0..(((stop - start + 1) \div 2) - 1)}

FindsDivisor(n, start, stop) == \E i \in range2(start, stop) : n % i = 0

\* the serial cell's check_prime(n), for n >= 0
check_prime(n) ==
    IF n % 2 = 0 THEN FALSE
    ELSE IF FindsDivisor(n, 3, int_sqrt(n) + 1) THEN FALSE
    ELSE TRUE

\* the serial cell's loop: primes.append(possible_prime) for each
\* possible_prime of range(a, b) that check_prime accepts
RECURSIVE SerialPrimes(_, _)
SerialPrimes(a, b) ==
    IF a >= b THEN <<>>
    ELSE (IF check_prime(a) THEN <<a>> ELSE <<>>) \o SerialPrimes(a + 1, b)

\* worker_puts with the for loop written range(3, int(math.sqrt(n)), 2)
worker_puts_short_range(n) ==
    IF n % 2 = 0 THEN FALSE
    ELSE ~FindsDivisor(n, 3, int_sqrt(n))

\* the queue worker's else-branch for an int n >= 0: TRUE when control
\* reaches definite_primes_queue.put(n): n is odd (no `continue`) and the
\* for loop ends without `break` (its else clause runs)
worker_puts(n) ==
    IF n % 2 = 0 THEN FALSE
    ELSE ~FindsDivisor(n, 3, int_sqrt(n) + 1)

\* the worker's branch raises: math.sqrt of a negative odd n
worker_raises(n) == n % 2 # 0 /\ sqrt_raises(n)

(***************************************************************************)
(* The initial state: the cell starts with primes = [] and no queue; the    *)
(* counter of finished workers is 0 from its assignment on, and is read    *)
(* nowhere before it.                                                      *)
(***************************************************************************)
None == [none |-> TRUE]

\* a cell that has not been run
PoolIdle == next_task = 0 /\ holding = <<>>

PoolCellIdle == are_primes = <<>>

\* the Monte Carlo cells' variables with the two inputs set
MonteCarloInputs(total, blocks) ==
    [number_samples_in_total |-> total,
     number_parallel_blocks |-> blocks,
     number_trials_per_process |-> <<>>,
     step |-> <<>>,
     number_trials_in_quarter_circle |-> <<>>,
     number_in_unit_circles |-> <<>>,
     pi_estimate |-> None]

MonteCarloIdle == monte_carlo = MonteCarloInputs(0, 0)

CythonIdle ==
    /\ in_flight = <<>>
    /\ fib = [call |-> None, returned |-> None]

PrangeIdle ==
    /\ A = <<>>
    /\ iterated = {}
    /\ partial = <<>>
    /\ combined = {}
    /\ s_prange = 0
    /\ s_range = 0

Workers == 1..NBR_PROCESSES

InitCell(l, h, w, k, t) ==
    /\ lo = l
    /\ hi = h
    /\ NBR_PROCESSES = w
    /\ created = {}
    /\ possible_primes_queue = <<>>
    /\ definite_primes_queue = <<>>
    /\ primes = <<>>
    /\ processors_indicating_they_have_finished = 0
    /\ pc = "queues"
    /\ started = 0
    /\ possible_prime = l
    /\ stops_put = 0
    /\ wpc = [w2 \in 1..w |-> "unstarted"]
    /\ wn = [w2 \in 1..w |-> None]
    /\ dequeued = <<>>
    /\ stops_got = [w2 \in 1..w |-> 0]
    /\ flags_put = [w2 \in 1..w |-> 0]
    /\ received_values = <<>>
    /\ result_by = <<>>
    /\ got = <<>>
    /\ maxsize = k
    /\ tracing = t
    /\ PoolIdle
    /\ PoolCellIdle
    /\ CythonIdle
    /\ MonteCarloIdle
    /\ PrangeIdle

\* the cell as written: manager.Queue() without maxsize
InitWith(l, h, w) == InitCell(l, h, w, 0, FALSE)

\* number_range = range(l, l + n) and NBR_PROCESSES = w, for the explored
\* l, n and w (the notebook sets them as literals in the cell)
Init ==
    \E l \in 1..MaxLo, n \in 0..MaxLen, w \in 0..MaxW :
        InitWith(l, l + n, w)

(***************************************************************************)
(* The manager's Queue: put adds at the back, get takes from the front.    *)
(***************************************************************************)
\* a put that adds at the front
QueuePut_lifo(q, x) == <<x>> \o q

\* q.put(x)
QueuePut(q, x) == Append(q, x)

\* the item q.get() returns, for a queue that is not empty
QueueFront(q) == Head(q)

\* a get that leaves the item in the queue
QueueRest_keeps(q) == q

\* the queue q.get() leaves behind
QueueRest(q) == Tail(q)

\* a queue whose put never blocks, whatever its maxsize
QueueFull_never(q, size) == FALSE

\* q.put blocks while a queue created with maxsize > 0 holds maxsize items
QueueFull(q, size) == size > 0 /\ Len(q) >= size

\* what a history variable becomes in a step: its new value in a traced run
Traced(new, old) == IF tracing THEN new ELSE old

(***************************************************************************)
(* The Coordinator (the main process running the pipeline cell).           *)
(***************************************************************************)
\* possible_primes_queue = manager.Queue(); definite_primes_queue = ...
CreateQueues ==
    /\ pc = "queues"
    /\ created' = {"possible_primes_queue", "definite_primes_queue"}
    /\ pc' = "pool"
    /\ UNCHANGED <<maxsize, tracing, other_cells>>
    /\ UNCHANGED <<lo, hi, NBR_PROCESSES, possible_primes_queue,
                   definite_primes_queue, primes,
                   processors_indicating_they_have_finished, started,
                   possible_prime, stops_put, wpc, wn, history>>

\* a Pool that accepts any process count
PoolRaises_never(n) == FALSE

\* Pool(processes=n) raises ValueError("Number of processes must be at
\* least 1") for n < 1
PoolRaises(n) == n < 1

\* the stop loop with one iteration fewer
StopCount_one_short == NBR_PROCESSES - 1

\* the number of FLAG_ALL_DONE markers the stop loop puts:
\* `for n in range(NBR_PROCESSES)`
StopCount == NBR_PROCESSES

\* where the cell goes once the fill loop is over: into the stop loop, or
\* past it when that loop has no iteration
AfterFill == IF StopCount > 0 THEN "stops" ELSE "drain"

\* where the cell goes once the launch loop is over: into the fill loop,
\* or past it when number_range is empty
AfterLaunch == IF lo < hi THEN "fill" ELSE AfterFill

\* pool = Pool(processes=NBR_PROCESSES); processes = []
CreatePool ==
    /\ pc = "pool"
    /\ pc' = IF PoolRaises(NBR_PROCESSES) THEN "ValueError" ELSE "launch"
    /\ UNCHANGED <<maxsize, tracing, other_cells>>
    /\ UNCHANGED <<lo, hi, NBR_PROCESSES, created, possible_primes_queue,
                   definite_primes_queue, primes,
                   processors_indicating_they_have_finished, started,
                   possible_prime, stops_put, wpc, wn, history>>

\* one iteration of `for _ in range(NBR_PROCESSES)`: p.start()
StartProcess ==
    /\ pc = "launch"
    /\ started < NBR_PROCESSES
    /\ started' = started + 1
    /\ wpc' = [wpc EXCEPT ![started + 1] = "get"]
    /\ pc' = IF started + 1 = NBR_PROCESSES THEN AfterLaunch ELSE "launch"
    /\ UNCHANGED <<maxsize, tracing, other_cells>>
    /\ UNCHANGED <<lo, hi, NBR_PROCESSES, created, possible_primes_queue,
                   definite_primes_queue, primes,
                   processors_indicating_they_have_finished,
                   possible_prime, stops_put, wn, history>>

\* one iteration of `for possible_prime in number_range`
PutCandidate ==
    /\ pc = "fill"
    /\ ~QueueFull(possible_primes_queue, maxsize)
    /\ possible_primes_queue' =
           QueuePut(possible_primes_queue, PyInt(possible_prime))
    /\ possible_prime' = possible_prime + 1
    /\ pc' = IF possible_prime + 1 < hi THEN "fill" ELSE AfterFill
    /\ UNCHANGED <<maxsize, tracing, other_cells>>
    /\ UNCHANGED <<lo, hi, NBR_PROCESSES, created, definite_primes_queue,
                   primes, processors_indicating_they_have_finished,
                   started, stops_put, wpc, wn, history>>

\* one iteration of `for n in range(NBR_PROCESSES)`
PutStop ==
    /\ pc = "stops"
    /\ ~QueueFull(possible_primes_queue, maxsize)
    /\ possible_primes_queue' =
           QueuePut(possible_primes_queue, FLAG_ALL_DONE)
    /\ stops_put' = stops_put + 1
    /\ pc' = IF stops_put + 1 >= StopCount THEN "drain" ELSE "stops"
    /\ UNCHANGED <<maxsize, tracing, other_cells>>
    /\ UNCHANGED <<lo, hi, NBR_PROCESSES, created, definite_primes_queue,
                   primes, processors_indicating_they_have_finished,
                   started, possible_prime, wpc, wn, history>>

\* the break taken at the first marker
DrainBreaks_at_first(count) == count >= 1

\* if processors_indicating_they_have_finished == NBR_PROCESSES: break
DrainBreaks(count) == count = NBR_PROCESSES

\* a result put at the front of the list
AppendResult_in_front(list, x) == <<x>> \o list

\* primes.append(new_result)
AppendResult(list, x) == Append(list, x)

\* one iteration of the drain loop `while True`: the blocking get and the
\* branch on its result
Drain ==
    /\ pc = "drain"
    /\ definite_primes_queue # <<>>
    /\ LET new_result == QueueFront(definite_primes_queue)
       IN  /\ definite_primes_queue' = QueueRest(definite_primes_queue)
           /\ result_by' = Traced(QueueRest(result_by), result_by)
           /\ got' = Traced(Append(got, [item |-> new_result,
                                         by |-> QueueFront(result_by)]),
                            got)
           /\ IF new_result = FLAG_WORKER_FINISHED_PROCESSING
              THEN /\ processors_indicating_they_have_finished' =
                          processors_indicating_they_have_finished + 1
                   /\ pc' = IF DrainBreaks(
                                processors_indicating_they_have_finished + 1)
                            THEN "assert" ELSE "drain"
                   /\ UNCHANGED <<primes, received_values>>
              ELSE /\ primes' = AppendResult(primes, new_result)
                   /\ received_values' = Append(received_values, new_result)
                   /\ UNCHANGED <<processors_indicating_they_have_finished,
                                  pc>>
    /\ UNCHANGED <<maxsize, tracing, other_cells>>
    /\ UNCHANGED <<lo, hi, NBR_PROCESSES, created, possible_primes_queue,
                   started, possible_prime, stops_put, wpc, wn,
                   dequeued, stops_got, flags_put>>

\* assert processors_indicating_they_have_finished == NBR_PROCESSES
AssertFinished ==
    /\ pc = "assert"
    /\ pc' = IF processors_indicating_they_have_finished = NBR_PROCESSES
             THEN "done" ELSE "AssertionError"
    /\ UNCHANGED <<maxsize, tracing, other_cells>>
    /\ UNCHANGED <<lo, hi, NBR_PROCESSES, created, possible_primes_queue,
                   definite_primes_queue, primes,
                   processors_indicating_they_have_finished, started,
                   possible_prime, stops_put, wpc, wn, history>>

Coordinator ==
    \/ CreateQueues
    \/ CreatePool
    \/ StartProcess
    \/ PutCandidate
    \/ PutStop
    \/ Drain
    \/ AssertFinished

(***************************************************************************)
(* A worker process running check_prime(possible_primes_queue,             *)
(* definite_primes_queue).  The queue operations are the steps; the        *)
(* arithmetic between a get and the next queue operation is local to the   *)
(* worker and is part of the step of the get.                              *)
(***************************************************************************)
\* a worker that takes every item for the STOP marker
SeesStop_always(n) == TRUE

\* if n == FLAG_ALL_DONE
SeesStop(n) == n = FLAG_ALL_DONE

\* n = possible_primes_queue.get() and the branch taken on n
WorkerGet(w) ==
    /\ wpc[w] = "get"
    /\ possible_primes_queue # <<>>
    /\ LET n == QueueFront(possible_primes_queue)
       IN  /\ possible_primes_queue' = QueueRest(possible_primes_queue)
           /\ dequeued' = Append(dequeued, n)
           /\ stops_got' = IF n = FLAG_ALL_DONE
                            THEN [stops_got EXCEPT ![w] = @ + 1]
                            ELSE stops_got
           /\ IF SeesStop(n)
              THEN /\ wpc' = [wpc EXCEPT ![w] = "flag"]
                   /\ UNCHANGED wn
              ELSE IF worker_raises(n.int)
              THEN /\ wpc' = [wpc EXCEPT ![w] = "ValueError"]
                   /\ UNCHANGED wn
              ELSE IF worker_puts(n.int)
              THEN /\ wpc' = [wpc EXCEPT ![w] = "put"]
                   /\ wn' = [wn EXCEPT ![w] = n]
              ELSE UNCHANGED <<wpc, wn>>
    /\ UNCHANGED <<maxsize, tracing, other_cells>>
    /\ UNCHANGED <<lo, hi, NBR_PROCESSES, created, definite_primes_queue,
                   primes, processors_indicating_they_have_finished, pc,
                   started, possible_prime, stops_put, flags_put,
                   received_values, result_by, got>>

\* definite_primes_queue.put(n)
WorkerPut(w) ==
    /\ wpc[w] = "put"
    /\ definite_primes_queue' = QueuePut(definite_primes_queue, wn[w])
    /\ wpc' = [wpc EXCEPT ![w] = "get"]
    /\ wn' = [wn EXCEPT ![w] = None]
    /\ result_by' = Traced(QueuePut(result_by, w), result_by)
    /\ UNCHANGED <<maxsize, tracing, other_cells>>
    /\ UNCHANGED <<lo, hi, NBR_PROCESSES, created, possible_primes_queue,
                   primes, processors_indicating_they_have_finished, pc,
                   started, possible_prime, stops_put,
                   dequeued, stops_got, flags_put, received_values, got>>

\* a STOP branch without its `break`: the worker goes round the loop again
AfterFlag_no_break == "get"

\* the worker's position after the STOP branch: `break` leaves the loop and
\* check_prime returns
AfterFlag == "done"

\* definite_primes_queue.put(FLAG_WORKER_FINISHED_PROCESSING); break
WorkerFinish(w) ==
    /\ wpc[w] = "flag"
    /\ definite_primes_queue' =
           QueuePut(definite_primes_queue, FLAG_WORKER_FINISHED_PROCESSING)
    /\ wpc' = [wpc EXCEPT ![w] = AfterFlag]
    /\ flags_put' = [flags_put EXCEPT ![w] = @ + 1]
    /\ result_by' = Traced(QueuePut(result_by, w), result_by)
    /\ UNCHANGED <<maxsize, tracing, other_cells>>
    /\ UNCHANGED <<lo, hi, NBR_PROCESSES, created, possible_primes_queue,
                   primes, processors_indicating_they_have_finished, pc,
                   started, possible_prime, stops_put, wn,
                   dequeued, stops_got, received_values, got>>

Worker(w) ==
    \/ WorkerGet(w)
    \/ WorkerPut(w)
    \/ WorkerFinish(w)

Next ==
    \/ Coordinator
    \/ \E w \in Workers : Worker(w)

Spec == Init /\ [][Next]_vars

(***************************************************************************)
(* Scheduling: the operating system runs every started process, so a step  *)
(* of the Coordinator or of a worker that stays possible is eventually     *)
(* taken.                                                                  *)
(***************************************************************************)
FairWorker(w) == w \in Workers /\ Worker(w)

FairSpec ==
    /\ Spec
    /\ WF_vars(Coordinator)
    /\ \A w \in 1..MaxW : WF_vars(FairWorker(w))

(***************************************************************************)
(* Other sets of inputs.                                                   *)
(***************************************************************************)
\* ranges that start at or below 1, non-positive candidates included
Init5 ==
    \E l \in (1 - MaxLen)..1, n \in 0..MaxLen, w \in 0..MaxW :
        InitWith(l, l + n, w)

Spec5 == Init5 /\ [][Next]_vars

\* range(100000000, 100000050) with 4 workers
Init7 == InitWith(100000000, 100000050, 4)

Spec7 == Init7 /\ [][Next]_vars

\* range(10, 20) with 2 workers
Init8 == InitWith(10, 20, 2)

Spec8 == Init8 /\ [][Next]_vars

(***************************************************************************)
(* Vocabulary of the properties.                                           *)
(***************************************************************************)
\* the values of the Coordinator's primes list, in order and as a set
PrimesInts == [i \in 1..Len(primes) |-> primes[i].int]

PrimesValues == {primes[i].int : i \in 1..Len(primes)}

SeqSet(s) == {s[i] : i \in 1..Len(s)}

\* the Coordinator has left the drain loop
DrainOver == pc \in {"assert", "done", "AssertionError"}

\* n is a prime number
IsPrime(n) == n > 1 /\ \A d \in 2..(n - 1) : n % d # 0

BothQueues == {"possible_primes_queue", "definite_primes_queue"}

(***************************************************************************)
(* C1: once the drain loop has finished, the set of values in primes is    *)
(* the set the serial loop with the serial check_prime produces on the     *)
(* same range, for every explored range, worker count and interleaving.    *)
(***************************************************************************)
C1_PipelineEqualsSerial ==
    DrainOver => PrimesValues = SeqSet(SerialPrimes(lo, hi))

C1_Witness ==
    /\ pc = "done"
    /\ NBR_PROCESSES >= 2
    /\ Cardinality(PrimesValues) >= 2
    /\ \E n \in lo..(hi - 1) : n \notin PrimesValues

C3_AssertHolds ==
    /\ pc = "assert" =>
           processors_indicating_they_have_finished = NBR_PROCESSES
    /\ pc # "AssertionError"
    /\ processors_indicating_they_have_finished \in 0..NBR_PROCESSES

C3_Witness ==
    /\ pc = "assert"
    /\ NBR_PROCESSES >= 2
    /\ processors_indicating_they_have_finished = NBR_PROCESSES

(***************************************************************************)
(* C4: for lo >= 1, every value of the final output is a prime p with      *)
(* lo <= p < hi.                                                           *)
(***************************************************************************)
C4_OutputsArePrimes ==
    (DrainOver /\ lo >= 1) =>
        \A p \in PrimesValues : IsPrime(p) /\ lo <= p /\ p < hi

(***************************************************************************)
(* C5, as the claim states it: with zero workers or a non-positive (or     *)
(* empty) range no queue is ever created, no worker is launched and the    *)
(* drain loop is never entered.                                            *)
(***************************************************************************)
MalformedInput == NBR_PROCESSES = 0 \/ hi <= lo \/ lo <= 0

C5_RejectedBeforeQueues ==
    MalformedInput =>
        /\ created = {}
        /\ started = 0
        /\ pc \notin {"drain", "assert", "done", "AssertionError"}

(***************************************************************************)
(* C5, amended: nothing is rejected before the queues are created: for     *)
(* every input both queues exist after the first step.  With zero workers  *)
(* the Pool constructor then raises, no worker is launched and the drain   *)
(* loop is never entered; with W >= 1 every range, empty or non-positive,  *)
(* is accepted: all W workers are launched before the fill loop and the    *)
(* Coordinator goes on to the drain loop.                                  *)
(***************************************************************************)
C5_NothingRejectedEarly ==
    /\ pc # "queues" => created = BothQueues
    /\ NBR_PROCESSES = 0 =>
           /\ started = 0
           /\ pc \in {"queues", "pool", "ValueError"}
    /\ NBR_PROCESSES >= 1 =>
           /\ pc # "ValueError"
           /\ pc \in {"fill", "stops", "drain", "assert", "done"} =>
                  started = NBR_PROCESSES

C5_Witness ==
    /\ NBR_PROCESSES >= 1
    /\ hi <= lo \/ hi <= 1
    /\ pc = "drain"
    /\ created = BothQueues
    /\ started = NBR_PROCESSES

(***************************************************************************)
(* C6: for a range [2, hi) with hi > 2 and W >= 1 the result contains 2.   *)
(***************************************************************************)
C6_TwoIsIncluded ==
    (pc = "done" /\ lo = 2 /\ hi > 2 /\ NBR_PROCESSES >= 1) =>
        2 \in PrimesValues

(***************************************************************************)
(* C7, as the claim states it: range(100000000, 100000050) with W = 4      *)
(* ends with the result set {100000007, 100000037, 100000039} and the      *)
(* finished-worker count 4.                                                *)
(***************************************************************************)
C7_ThreePrimes ==
    pc = "done" =>
        /\ PrimesValues = {100000007, 100000037, 100000039}
        /\ processors_indicating_they_have_finished = 4

(***************************************************************************)
(* C7, amended: range(100000000, 100000050) with W = 4 ends with the       *)
(* result set {100000007, 100000037, 100000039, 100000049} and the         *)
(* finished-worker count 4.                                                *)
(***************************************************************************)
C7_FourPrimes ==
    DrainOver =>
        /\ PrimesValues = {100000007, 100000037, 100000039, 100000049}
        /\ processors_indicating_they_have_finished = 4

C7_Witness ==
    /\ pc = "done"
    /\ NBR_PROCESSES = 4
    /\ lo = 100000000
    /\ hi = 100000050
    /\ Len(primes) = 4

(***************************************************************************)
(* C8: range(10, 20) with W = 2 ends, in every interleaving, with the      *)
(* result set {11, 13, 17, 19}.                                            *)
(***************************************************************************)
C8_TenToTwenty ==
    DrainOver => PrimesValues = {11, 13, 17, 19}

C8_Witness ==
    /\ pc = "done"
    /\ lo = 10
    /\ hi = 20
    /\ NBR_PROCESSES = 2
    /\ Len(primes) = 4

(***************************************************************************)
(* C9: a range that holds only non-primes yields an empty primes list for  *)
(* every W >= 1, and the Coordinator has received W WORKER_DONE markers    *)
(* when it completes.                                                      *)
(***************************************************************************)
C9_NonPrimesYieldNothing ==
    (pc = "done" /\ NBR_PROCESSES >= 1 /\
     \A n \in lo..(hi - 1) : ~IsPrime(n)) =>
        /\ primes = <<>>
        /\ processors_indicating_they_have_finished = NBR_PROCESSES

(***************************************************************************)
(* C10: with W = 1 the final primes list is the serial loop's list,        *)
(* element for element; exactly one STOP is enqueued, exactly one          *)
(* WORKER_DONE is received, and WORKER_DONE is only ever the last item of  *)
(* the Result Queue, which is empty once it has been received.             *)
(***************************************************************************)
C10_OneWorkerIsSerial ==
    NBR_PROCESSES = 1 =>
        /\ DrainOver => PrimesInts = SerialPrimes(lo, hi)
        /\ stops_put <= 1
        /\ pc \in {"drain", "assert", "done"} => stops_put = 1
        /\ processors_indicating_they_have_finished <= 1
        /\ DrainOver =>
               /\ processors_indicating_they_have_finished = 1
               /\ definite_primes_queue = <<>>
        /\ \A i \in 1..Len(definite_primes_queue) :
               definite_primes_queue[i] = FLAG_WORKER_FINISHED_PROCESSING
                   => i = Len(definite_primes_queue)

C10_Witness ==
    /\ pc = "done"
    /\ NBR_PROCESSES = 1
    /\ Len(primes) >= 2
    /\ stops_put = 1
    /\ processors_indicating_they_have_finished = 1

(***************************************************************************)
(* C11: the set of values a complete run ends with is fixed by the range   *)
(* alone: it is the set of the candidates of the range that the worker's   *)
(* test forwards, whatever W and whatever the interleaving; so any two     *)
(* complete runs on the same range and W end with the same set.            *)
(***************************************************************************)
C11_SameSetEveryRun ==
    DrainOver => PrimesValues = {n \in lo..(hi - 1) : worker_puts(n)}

\* a complete run whose interleaving shows in the order of primes
C11_Witness ==
    /\ pc = "done"
    /\ NBR_PROCESSES >= 2
    /\ Len(primes) >= 2
    /\ primes[1].int > primes[2].int

(***************************************************************************)
(* C12: the Coordinator puts exactly W STOP markers (never more, and all   *)
(* W before it drains); no worker ever gets two of them, and in a          *)
(* complete run every worker has got exactly one.                          *)
(***************************************************************************)
StopsIn(q) == Cardinality({i \in 1..Len(q) : q[i] = FLAG_ALL_DONE})

C12_OneStopPerWorker ==
    /\ stops_put <= NBR_PROCESSES
    /\ StopsIn(possible_primes_queue) + StopsIn(dequeued) = stops_put
    /\ pc \in {"drain", "assert", "done"} => stops_put = NBR_PROCESSES
    /\ \A w \in Workers : stops_got[w] <= 1
    /\ pc = "done" =>
           /\ \A w \in Workers : stops_got[w] = 1
           /\ StopsIn(dequeued) = NBR_PROCESSES

C12_Witness ==
    /\ pc = "done"
    /\ NBR_PROCESSES >= 2
    /\ hi > lo
    /\ \A w \in Workers : stops_got[w] = 1

(***************************************************************************)
(* C13: a worker puts WORKER_DONE at most once, has put it exactly once    *)
(* when the run is complete, and once it has put it no step is ever a      *)
(* step of that worker: it gets nothing more from the Work Queue and puts  *)
(* nothing more on the Result Queue.                                       *)
(***************************************************************************)
C13_DoneOnceThenSilent ==
    /\ [](\A w \in Workers :
            /\ flags_put[w] <= 1
            /\ pc = "done" => flags_put[w] = 1)
    /\ [][\A w \in Workers :
            flags_put[w] >= 1 =>
                ~WorkerGet(w) /\ ~WorkerPut(w) /\ ~WorkerFinish(w)]_vars

\* a worker has put its WORKER_DONE while the Work Queue still holds items
C13_Witness ==
    /\ \E w \in Workers : flags_put[w] = 1
    /\ possible_primes_queue # <<>>
    /\ \E w \in Workers : wpc[w] = "get"

(***************************************************************************)
(* A worker process that halts: it is killed, or an exception ends         *)
(* check_prime, at any point between its start and its put of WORKER_DONE. *)
(* Nothing in the cell watches the processes (no join, no timeout on the   *)
(* get), so a halt changes the worker's position and nothing else.         *)
(***************************************************************************)
WorkerCrash(w) ==
    /\ wpc[w] \in {"get", "put", "flag"}
    /\ wpc' = [wpc EXCEPT ![w] = "crashed"]
    /\ UNCHANGED <<maxsize, tracing, other_cells>>
    /\ UNCHANGED <<lo, hi, NBR_PROCESSES, created, possible_primes_queue,
                   definite_primes_queue, primes,
                   processors_indicating_they_have_finished, pc, started,
                   possible_prime, stops_put, wn, history>>

Next14 ==
    \/ Next
    \/ \E w \in Workers : WorkerCrash(w)

\* the pipeline with workers that may halt, on the ranges of Init5
Spec14 == Init5 /\ [][Next14]_vars

\* worker w has halted without putting its WORKER_DONE
Halted(w) == wpc[w] \in {"crashed", "ValueError"}

(***************************************************************************)
(* C14: once a worker has halted before putting its WORKER_DONE, the       *)
(* Coordinator never leaves the drain loop: it never reaches the assert    *)
(* nor the end of the cell, no exception ends it, and its finished-worker  *)
(* counter stays below W.                                                  *)
(***************************************************************************)
C14_CrashBlocksCoordinator ==
    (\E w \in Workers : Halted(w)) =>
        /\ pc \in {"launch", "fill", "stops", "drain"}
        /\ processors_indicating_they_have_finished < NBR_PROCESSES

\* the Coordinator blocked for ever: in the drain loop on an empty Result
\* Queue, with one worker halted and every other worker finished
C14_Witness ==
    /\ NBR_PROCESSES >= 2
    /\ pc = "drain"
    /\ definite_primes_queue = <<>>
    /\ \E w \in Workers : wpc[w] = "crashed"
    /\ \A w \in Workers : wpc[w] \in {"crashed", "done"}
    /\ processors_indicating_they_have_finished = NBR_PROCESSES - 1
    /\ ~ENABLED Next14

(***************************************************************************)
(* C15: the Work Queue always holds a strictly ascending run of            *)
(* Candidates followed only by STOP markers; what has been enqueued so far *)
(* (the items already got, then the queue) is exactly the candidates       *)
(* lo, lo + 1, ... in ascending order followed by the STOPs put, and no    *)
(* STOP is put before the last Candidate.                                  *)
(***************************************************************************)
IsStop(x) == x = FLAG_ALL_DONE

C15_CandidatesThenStops ==
    /\ \A i, j \in 1..Len(possible_primes_queue) :
           i < j =>
               LET a == possible_primes_queue[i]
                   b == possible_primes_queue[j]
               IN  /\ IsStop(a) => IsStop(b)
                   /\ (~IsStop(a) /\ ~IsStop(b)) => a.int < b.int
    /\ stops_put > 0 => possible_prime >= hi
    /\ LET enqueued == dequeued \o possible_primes_queue
           candidates == possible_prime - lo
       IN  /\ Len(enqueued) = candidates + stops_put
           /\ \A i \in 1..Len(enqueued) :
                  enqueued[i] = IF i <= candidates
                                THEN PyInt(lo + i - 1)
                                ELSE FLAG_ALL_DONE

\* two Candidates and a STOP wait in the Work Queue
C15_Witness ==
    /\ Len(possible_primes_queue) >= 3
    /\ ~IsStop(possible_primes_queue[1])
    /\ ~IsStop(possible_primes_queue[2])
    /\ IsStop(possible_primes_queue[Len(possible_primes_queue)])
    /\ dequeued # <<>>

(***************************************************************************)
(* C16: every Candidate the Coordinator has enqueued is either still in    *)
(* the Work Queue or has been got exactly once (each get is one worker's): *)
(* none is got twice and none is lost; when the run is complete every      *)
(* Candidate of the range has been got exactly once, and neither the       *)
(* Result Queue nor primes ever holds a value twice.                       *)
(***************************************************************************)
TimesIn(s, x) == Cardinality({i \in 1..Len(s) : s[i] = x})

NoValueTwice(s) == \A i, j \in 1..Len(s) : i # j => s[i] # s[j]

C16_EachCandidateGotOnce ==
    /\ \A n \in lo..(hi - 1) :
           /\ TimesIn(dequeued, PyInt(n)) <= 1
           /\ TimesIn(dequeued, PyInt(n))
                + TimesIn(possible_primes_queue, PyInt(n))
                  = IF n < possible_prime THEN 1 ELSE 0
           /\ pc = "done" => TimesIn(dequeued, PyInt(n)) = 1
    /\ NoValueTwice(primes)
    /\ NoValueTwice(primes \o
                    SelectSeq(definite_primes_queue,
                              LAMBDA x : x # FLAG_WORKER_FINISHED_PROCESSING))

\* a complete run of several workers over several Candidates
C16_Witness ==
    /\ pc = "done"
    /\ NBR_PROCESSES >= 2
    /\ hi - lo >= 2
    /\ Len(dequeued) = (hi - lo) + NBR_PROCESSES
    /\ Len(primes) >= 2

(***************************************************************************)
(* The two state machines of the design, read off the positions.  A        *)
(* started worker is RUNNING while it is in its loop, SIGNALED_DONE once   *)
(* it has got a STOP (it has seen STOP and is at the put of WORKER_DONE),  *)
(* TERMINATED once it has put WORKER_DONE and left the loop.  The pipeline *)
(* is FILLING up to the last put of a STOP, DRAINING in the drain loop,    *)
(* COMPLETE after it.                                                      *)
(***************************************************************************)
WorkerStage(p) ==
    CASE p = "unstarted" -> "NOT_STARTED"
      [] p \in {"get", "put"} -> "RUNNING"
      [] p = "flag" -> "SIGNALED_DONE"
      [] p = "done" -> "TERMINATED"
      [] OTHER -> "HALTED"

PipelineStage(p) ==
    CASE p \in {"queues", "pool", "launch", "fill", "stops"} -> "FILLING"
      [] p = "drain" -> "DRAINING"
      [] p \in {"assert", "done"} -> "COMPLETE"
      [] OTHER -> "ABORTED"

(***************************************************************************)
(* C17: for W >= 1, a step changes a started worker's stage only from      *)
(* RUNNING to SIGNALED_DONE or from SIGNALED_DONE to TERMINATED, and the   *)
(* pipeline's stage only from FILLING to DRAINING or from DRAINING to      *)
(* COMPLETE; and a step that takes an item from the Result Queue happens   *)
(* only when every Candidate and all W STOP markers have been enqueued.    *)
(***************************************************************************)
C17_StagesOnlyForward ==
    [][NBR_PROCESSES >= 1 =>
        /\ \A w \in Workers :
               LET a == WorkerStage(wpc[w])
                   b == WorkerStage(wpc'[w])
               IN  \/ a = b
                   \/ a = "NOT_STARTED" /\ b = "RUNNING"
                   \/ a = "RUNNING" /\ b = "SIGNALED_DONE"
                   \/ a = "SIGNALED_DONE" /\ b = "TERMINATED"
        /\ LET a == PipelineStage(pc)
               b == PipelineStage(pc')
           IN  \/ a = b
               \/ a = "FILLING" /\ b = "DRAINING"
               \/ a = "DRAINING" /\ b = "COMPLETE"
        /\ Len(definite_primes_queue') < Len(definite_primes_queue) =>
               /\ possible_prime >= hi
               /\ stops_put = NBR_PROCESSES
               /\ Len(dequeued) + Len(possible_primes_queue)
                    = (IF hi > lo THEN hi - lo ELSE 0) + NBR_PROCESSES
      ]_vars

\* the pipeline is DRAINING with a worker in each of the three stages
C17_Witness ==
    /\ PipelineStage(pc) = "DRAINING"
    /\ \E w \in Workers : WorkerStage(wpc[w]) = "RUNNING"
    /\ \E w \in Workers : WorkerStage(wpc[w]) = "SIGNALED_DONE"
    /\ \E w \in Workers : WorkerStage(wpc[w]) = "TERMINATED"
    /\ primes # <<>>

(***************************************************************************)
(* C18: once the Coordinator has left the drain loop both queues are       *)
(* empty: every Candidate of the range and all W STOPs have been got from  *)
(* the Work Queue, nothing is left in the Result Queue, and every worker   *)
(* has left its loop, so the last WORKER_DONE received is the last item    *)
(* ever put on the Result Queue; no later step changes either queue.       *)
(***************************************************************************)
C18_QueuesEmptyAtCompletion ==
    /\ [](DrainOver =>
            /\ possible_primes_queue = <<>>
            /\ definite_primes_queue = <<>>
            /\ Len(dequeued) =
                   (IF hi > lo THEN hi - lo ELSE 0) + NBR_PROCESSES
            /\ \A w \in Workers : wpc[w] = "done" /\ flags_put[w] = 1)
    /\ [][DrainOver =>
            /\ possible_primes_queue' = possible_primes_queue
            /\ definite_primes_queue' = definite_primes_queue]_vars

\* the Coordinator at the assert, after primes and markers of several workers
C18_Witness ==
    /\ pc = "assert"
    /\ NBR_PROCESSES >= 2
    /\ received_values # <<>>
    /\ possible_primes_queue = <<>>
    /\ definite_primes_queue = <<>>

(***************************************************************************)
(* C19: every step leaves primes a prefix of its next value (it only       *)
(* grows, at its end), and primes is always, in order, the sequence of     *)
(* the non-marker items got so far from the Result Queue.                  *)
(***************************************************************************)
IsPrefix(s, t) ==
    /\ Len(s) <= Len(t)
    /\ \A i \in 1..Len(s) : s[i] = t[i]

C19_PrimesAppendOnly ==
    /\ [][IsPrefix(primes, primes')]_vars
    /\ [](primes = received_values)

\* two values received, with a marker received before the second
C19_Witness ==
    /\ pc = "drain"
    /\ Len(primes) >= 2
    /\ processors_indicating_they_have_finished >= 1
    /\ definite_primes_queue # <<>>

\* ---------------------------------------------------------------------
\* C20  For W >= 2 and a range holding at least two primes, some complete
\* run leaves primes out of ascending order.  Every complete run of one
\* input ends with the same set of values (C11), so a list that is out of
\* order has at least two entries, and the claim implies what is stated
\* here: a complete run with two or more workers over a range holding at
\* least two primes ends with at least two entries in primes.
Ascending(q) == \A i, j \in 1..Len(q) : i < j => q[i].int < q[j].int

TruePrimes == {n \in lo..(hi - 1) : IsPrime(n)}

C20_OutOfOrderRunExists ==
    (pc = "done" /\ NBR_PROCESSES >= 2 /\ Cardinality(TruePrimes) >= 2)
        => Len(primes) >= 2

\* The run the claim speaks of, for the ranges whose primes the workers
\* forward: a complete run with two workers whose primes is out of order.
C20_OutOfOrderRun ==
    /\ pc = "done"
    /\ NBR_PROCESSES >= 2
    /\ Cardinality(TruePrimes) >= 2
    /\ ~Ascending(primes)

(***************************************************************************)
(* Traced runs: the same cell on the same inputs, with the producer of     *)
(* every item of the Result Queue recorded.                                *)
(***************************************************************************)
MaxW21 == 2     \* worker counts 0..MaxW21 of the traced runs

Init21 ==
    \E l \in 1..MaxLo, n \in 0..MaxLen, w \in 0..MaxW21 :
        InitCell(l, l + n, w, 0, TRUE)

Spec21 == Init21 /\ [][Next]_vars

IsDone(x) == x = FLAG_WORKER_FINISHED_PROCESSING

\* every item ever put on the Result Queue with its producer, in the order
\* the Coordinator gets them: those already got, then those still queued
ResultStream ==
    got \o [i \in 1..Len(definite_primes_queue) |->
               [item |-> definite_primes_queue[i], by |-> result_by[i]]]

\* the values (non-markers) among the items got, in order
GotValues ==
    LET t == SelectSeq(got, LAMBDA g : ~IsDone(g.item))
    IN  [i \in 1..Len(t) |-> t[i].item]

(***************************************************************************)
(* C21: of two items put by the same worker the earlier one received is    *)
(* never its WORKER_DONE, and when both are values the earlier is the      *)
(* smaller: each worker's values reach primes (which is the values got,    *)
(* in the order got) in strictly ascending order, and its WORKER_DONE is   *)
(* received after all of them; in a complete run every worker's            *)
(* WORKER_DONE has been received.                                          *)
(***************************************************************************)
C21_FifoPerProducer ==
    /\ Len(result_by) = Len(definite_primes_queue)
    /\ primes = GotValues
    /\ \A i, j \in 1..Len(ResultStream) :
           (i < j /\ ResultStream[i].by = ResultStream[j].by) =>
               /\ ~IsDone(ResultStream[i].item)
               /\ ~IsDone(ResultStream[j].item) =>
                      ResultStream[i].item.int < ResultStream[j].item.int
    /\ pc = "done" =>
           \A w \in Workers :
               \E i \in 1..Len(got) : got[i].by = w /\ IsDone(got[i].item)

\* a complete run in which one worker forwarded two values and another
\* worker's WORKER_DONE was received before the second of them
C21_Witness ==
    /\ pc = "done"
    /\ NBR_PROCESSES >= 2
    /\ \E i, j, k \in 1..Len(got) :
           /\ i < j /\ k < j
           /\ got[i].by = got[j].by
           /\ ~IsDone(got[i].item) /\ ~IsDone(got[j].item)
           /\ got[k].by # got[j].by /\ IsDone(got[k].item)

(***************************************************************************)
(* One worker testing one Candidate n >= 3: number_range = range(n, n + 1) *)
(* with NBR_PROCESSES = 1.                                                 *)
(***************************************************************************)
MaxN22 == 130   \* the Candidates tested are 3..MaxN22

Init22 == \E n \in 3..MaxN22 : InitWith(n, n + 1, 1)

Spec22 == Init22 /\ [][Next]_vars

\* the Candidate has been got from the Work Queue and tested
Tested(n) == \E i \in 1..Len(dequeued) : dequeued[i] = PyInt(n)

\* the worker has forwarded n: n is at the put, in the Result Queue or in
\* primes
Forwarded(n) ==
    \/ \E w \in Workers : wpc[w] = "put" /\ wn[w] = PyInt(n)
    \/ \E i \in 1..Len(definite_primes_queue) :
           definite_primes_queue[i] = PyInt(n)
    \/ \E i \in 1..Len(primes) : primes[i] = PyInt(n)

(***************************************************************************)
(* C22: a tested Candidate n >= 3 is forwarded if and only if it is prime, *)
(* and the run ends with primes = [n] for a prime n and [] otherwise.  The *)
(* test forwards n exactly when n is odd and no odd d with                 *)
(* 3 <= d <= isqrt(n) divides it: the divisors tried are exactly those d,  *)
(* and isqrt(n) is the integer square root; an even n is never forwarded.  *)
(***************************************************************************)
C22_ForwardsIffPrime ==
    LET n == lo
        r == int_sqrt(n)
    IN  /\ r * r <= n /\ n < (r + 1) * (r + 1)
        /\ range2(3, r + 1) = {d \in 3..r : d % 2 = 1}
        /\ worker_puts(n) <=>
               (n % 2 # 0 /\ \A d \in range2(3, r + 1) : n % d # 0)
        /\ n % 2 = 0 => ~Forwarded(n)
        /\ Forwarded(n) => Tested(n) /\ IsPrime(n)
        /\ (Tested(n) /\ IsPrime(n)) => Forwarded(n)
        /\ pc = "done" =>
               primes = IF IsPrime(n) THEN <<PyInt(n)>> ELSE <<>>

\* a prime above 100 has been tested and has reached primes
C22_Witness ==
    /\ pc = "done"
    /\ lo > 100
    /\ primes = <<PyInt(lo)>>

(***************************************************************************)
(* The cell with the Work Queue created as manager.Queue(maxsize=k), as    *)
(* its comment proposes, for k in 1..MaxK; the Result Queue stays          *)
(* manager.Queue().                                                        *)
(***************************************************************************)
MaxK == 2       \* capacities 1..MaxK of the Work Queue

MaxW23 == 2     \* worker counts 1..MaxW23 of the bounded runs

Init23 ==
    \E l \in 1..MaxLo, n \in 0..MaxLen, w \in 1..MaxW23, k \in 1..MaxK :
        InitCell(l, l + n, w, k, FALSE)

Spec23 == Init23 /\ [][Next]_vars

FairSpec23 ==
    /\ Spec23
    /\ WF_vars(Coordinator)
    /\ \A w \in 1..MaxW23 : WF_vars(FairWorker(w))

(***************************************************************************)
(* C23: with a Work Queue of capacity k >= 1 and W >= 1 the queue never    *)
(* holds more than k items, the run never stops before the Coordinator is  *)
(* done, under fair scheduling the Coordinator completes, and it ends      *)
(* with the set of values it ends with when the Work Queue is unbounded:   *)
(* the candidates of the range that the worker's test forwards.            *)
(***************************************************************************)
C23_BoundedWorkQueue ==
    /\ [](Len(possible_primes_queue) <= maxsize)
    /\ [](pc # "done" => ENABLED Next)
    /\ [](DrainOver =>
            PrimesValues = {n \in lo..(hi - 1) : worker_puts(n)})
    /\ (NBR_PROCESSES >= 1) ~>
           (pc = "done" /\
            processors_indicating_they_have_finished = NBR_PROCESSES)

\* the Coordinator blocked at the put of a STOP on a full Work Queue,
\* with results already waiting in the Result Queue
C23_Witness ==
    /\ pc = "stops"
    /\ stops_put >= 1
    /\ QueueFull(possible_primes_queue, maxsize)
    /\ NBR_PROCESSES >= 2
    /\ definite_primes_queue # <<>>
    /\ ~ENABLED Coordinator

(***************************************************************************)
(* C24: a worker is at the put of WORKER_DONE, has put it, or has left its *)
(* loop only if it has got a STOP marker, and the step that puts           *)
(* WORKER_DONE is a step of a worker that has got one; while the Work      *)
(* Queue is empty a worker at its get can take no step at all: it neither  *)
(* terminates nor puts anything.                                           *)
(***************************************************************************)
C24_DoneOnlyAfterStop ==
    /\ [](\A w \in Workers :
            (wpc[w] \in {"flag", "done"} \/ flags_put[w] >= 1) =>
                stops_got[w] >= 1)
    /\ [](possible_primes_queue = <<>> =>
            \A w \in Workers : wpc[w] = "get" => ~ENABLED Worker(w))
    /\ [][\A w \in Workers :
            (flags_put'[w] > flags_put[w] \/
             (wpc[w] # "done" /\ wpc'[w] = "done")) =>
                stops_got[w] >= 1]_vars

\* all workers launched and blocked at their get on the still empty Work
\* Queue, before the first Candidate is put
C24_Witness ==
    /\ pc = "fill"
    /\ possible_prime = lo
    /\ NBR_PROCESSES >= 2
    /\ possible_primes_queue = <<>>
    /\ \A w \in Workers : wpc[w] = "get" /\ flags_put[w] = 0
    /\ ~ENABLED (\E w \in Workers : Worker(w))

\* worker w's step gets a Candidate that is not a prime number
TestsNonPrime(w) ==
    /\ WorkerGet(w)
    /\ ~IsStop(QueueFront(possible_primes_queue))
    /\ ~IsPrime(QueueFront(possible_primes_queue).int)

(***************************************************************************)
(* C25: no step of a worker changes primes or the finished-worker counter, *)
(* and the iteration of a worker's loop that gets a Candidate which is not *)
(* prime changes the Work Queue and nothing else: it puts nothing on the   *)
(* Result Queue and ends where it began, at the get (of the model's        *)
(* variables only the Work Queue and the record of the items got change).  *)
(***************************************************************************)
C25_WorkerFrame ==
    [][\A w \in Workers :
        /\ Worker(w) =>
               /\ primes' = primes
               /\ processors_indicating_they_have_finished' =
                      processors_indicating_they_have_finished
        /\ TestsNonPrime(w) =>
               /\ possible_primes_queue' = QueueRest(possible_primes_queue)
               /\ wpc'[w] = "get"
               /\ UNCHANGED <<lo, hi, NBR_PROCESSES, created,
                              definite_primes_queue, primes,
                              processors_indicating_they_have_finished,
                              pc, started, possible_prime, stops_put,
                              wpc, wn>>
      ]_vars

\* the same for the ranges that start above 1
C25_WorkerFrameAboveOne ==
    [][lo > 1 => \A w \in Workers :
        /\ Worker(w) =>
               /\ primes' = primes
               /\ processors_indicating_they_have_finished' =
                      processors_indicating_they_have_finished
        /\ TestsNonPrime(w) =>
               /\ possible_primes_queue' = QueueRest(possible_primes_queue)
               /\ UNCHANGED <<lo, hi, NBR_PROCESSES, created,
                              definite_primes_queue, primes,
                              processors_indicating_they_have_finished,
                              pc, started, possible_prime, stops_put,
                              wpc, wn>>
      ]_vars

DonesIn(q) == Cardinality({i \in 1..Len(q) : IsDone(q[i])})

NotYetDone == {w \in Workers : flags_put[w] = 0}

(***************************************************************************)
(* C26: once the W workers are launched, the finished-worker counter, the  *)
(* WORKER_DONE markers waiting in the Result Queue and the workers that    *)
(* have not yet put theirs add up to W; and a value got from the Result    *)
(* Queue is appended to primes whatever the counter, so also after the     *)
(* WORKER_DONE of another worker has been received.                        *)
(***************************************************************************)
C26_MarkersAddUp ==
    /\ []((started = NBR_PROCESSES /\ pc \notin {"queues", "pool"}) =>
            processors_indicating_they_have_finished
              + DonesIn(definite_primes_queue)
              + Cardinality(NotYetDone) = NBR_PROCESSES)
    /\ [][(Drain /\ ~IsDone(QueueFront(definite_primes_queue))) =>
            /\ primes' = Append(primes, QueueFront(definite_primes_queue))
            /\ processors_indicating_they_have_finished' =
                   processors_indicating_they_have_finished]_vars

\* a WORKER_DONE has been received, another waits in the Result Queue
\* behind a value that is the next item to be received, and a worker has
\* not yet put its own
C26_Witness ==
    /\ pc = "drain"
    /\ processors_indicating_they_have_finished >= 1
    /\ DonesIn(definite_primes_queue) >= 1
    /\ NotYetDone # {}
    /\ ~IsDone(QueueFront(definite_primes_queue))
    /\ ENABLED Drain

(***************************************************************************)
(* The Pool cell: primes = [], pool = multiprocessing.Pool(NBR_PROCESSES), *)
(* are_primes = pool.map(check_prime, number_range) and                    *)
(* primes = [p for p in itertools.compress(number_range, are_primes)].     *)
(*                                                                         *)
(* pool.map cuts the inputs into tasks of chunksize consecutive items,     *)
(* hands the tasks out in order to whichever pool process is free, and     *)
(* stores each task's results at the indices of its inputs, whenever they  *)
(* arrive; it returns the list once every result is there.                 *)
(***************************************************************************)
pipeline_cell ==
    <<created, possible_primes_queue, definite_primes_queue,
      processors_indicating_they_have_finished, started, possible_prime,
      stops_put, wpc, wn, history, maxsize, tracing>>

PipelineIdle ==
    /\ created = {}
    /\ possible_primes_queue = <<>>
    /\ definite_primes_queue = <<>>
    /\ processors_indicating_they_have_finished = 0
    /\ started = 0
    /\ possible_prime = 0
    /\ stops_put = 0
    /\ wpc = <<>>
    /\ wn = <<>>
    /\ dequeued = <<>>
    /\ stops_got = <<>>
    /\ flags_put = <<>>
    /\ received_values = <<>>
    /\ result_by = <<>>
    /\ got = <<>>
    /\ maxsize = 0
    /\ tracing = FALSE

PyBool(b) == [bool |-> b]

\* list(number_range), and its length
number_range == [i \in 1..(IF hi > lo THEN hi - lo ELSE 0) |-> lo + i - 1]

\* chunksize, extra = divmod(len(iterable), len(pool) * 4);
\* if extra: chunksize += 1
chunksize(len, processes) ==
    IF len % (processes * 4) = 0
    THEN len \div (processes * 4)
    ELSE len \div (processes * 4) + 1

\* the number of tasks of a map over len items
NumberOfTasks(len, processes) ==
    IF len = 0 THEN 0
    ELSE (len + chunksize(len, processes) - 1) \div chunksize(len, processes)

\* the indices of the items of task j
TaskItems(j, len, processes) ==
    {i \in 1..len : (i - 1) \div chunksize(len, processes) = j - 1}

\* results stored in the first free places, in the order they arrive
StoreResults_on_arrival(results, items, values) ==
    LET free == {i \in 1..Len(results) : results[i] = None}
        place(i) == CHOOSE k \in free :
                        Cardinality({f \in free : f < k})
                          = Cardinality({x \in items : x < i})
    IN  [k \in 1..Len(results) |->
            IF \E i \in items : place(i) = k
            THEN values[CHOOSE i \in items : place(i) = k]
            ELSE results[k]]

\* a task's results stored at the indices of its inputs
StoreResults(results, items, values) ==
    [k \in 1..Len(results) |->
        IF k \in items THEN values[k] ELSE results[k]]

\* itertools.compress(data, selectors), as a list
RECURSIVE compress(_, _)
compress(data, selectors) ==
    IF data = <<>> \/ selectors = <<>> THEN <<>>
    ELSE (IF Head(selectors).bool THEN <<Head(data)>> ELSE <<>>)
             \o compress(Tail(data), Tail(selectors))

\* primes = []; NBR_PROCESSES = 4; pool = multiprocessing.Pool(...)
PoolCellCreate ==
    /\ pc = "pool_cell"
    /\ primes' = <<>>
    /\ IF PoolRaises(NBR_PROCESSES)
       THEN pc' = "ValueError" /\ UNCHANGED holding
       ELSE /\ pc' = "map_call"
            /\ holding' = [p \in 1..NBR_PROCESSES |-> 0]
    /\ UNCHANGED <<lo, hi, NBR_PROCESSES, next_task, pool_cell,
                   pipeline_cell,
                   cython_cells, monte_carlo_cells, prange_cell>>

\* pool.map(check_prime, number_range) is called: the tasks are queued
PoolMapCall ==
    /\ pc = "map_call"
    /\ are_primes' = [i \in 1..Len(number_range) |-> None]
    /\ next_task' = 1
    /\ pc' = "map_wait"
    /\ UNCHANGED <<lo, hi, NBR_PROCESSES, primes, holding,
                   pipeline_cell,
                   cython_cells, monte_carlo_cells, prange_cell>>

\* a free pool process takes the next task
PoolCellTake(p) ==
    /\ pc = "map_wait"
    /\ holding[p] = 0
    /\ next_task <= NumberOfTasks(Len(number_range), NBR_PROCESSES)
    /\ holding' = [holding EXCEPT ![p] = next_task]
    /\ next_task' = next_task + 1
    /\ UNCHANGED <<lo, hi, NBR_PROCESSES, primes, pc, pool_cell,
                   pipeline_cell,
                   cython_cells, monte_carlo_cells, prange_cell>>

\* a pool process has run check_prime on the items of its task; the
\* results are stored in pool.map's list
PoolCellReturn(p) ==
    /\ pc = "map_wait"
    /\ holding[p] # 0
    /\ LET items == TaskItems(holding[p], Len(number_range),
                              NBR_PROCESSES)
       IN  are_primes' =
               StoreResults(are_primes, items,
                            [i \in items |->
                                PyBool(check_prime(number_range[i]))])
    /\ holding' = [holding EXCEPT ![p] = 0]
    /\ UNCHANGED <<lo, hi, NBR_PROCESSES, primes, pc, next_task,
                   pipeline_cell,
                   cython_cells, monte_carlo_cells, prange_cell>>

\* pool.map returns: every result is there
PoolMapReturns ==
    /\ pc = "map_wait"
    /\ \A i \in 1..Len(are_primes) : are_primes[i] # None
    /\ pc' = "compress"
    /\ UNCHANGED <<lo, hi, NBR_PROCESSES, primes, pool_state, pool_cell,
                   pipeline_cell,
                   cython_cells, monte_carlo_cells, prange_cell>>

\* primes = [p for p in itertools.compress(number_range, are_primes)]
Compress ==
    /\ pc = "compress"
    /\ primes' = compress(number_range, are_primes)
    /\ pc' = "done"
    /\ UNCHANGED <<lo, hi, NBR_PROCESSES, pool_state, pool_cell,
                   pipeline_cell,
                   cython_cells, monte_carlo_cells, prange_cell>>

Next27 ==
    \/ PoolCellCreate
    \/ PoolMapCall
    \/ \E p \in 1..NBR_PROCESSES : PoolCellTake(p)
    \/ \E p \in 1..NBR_PROCESSES : PoolCellReturn(p)
    \/ PoolMapReturns
    \/ Compress

MaxLen27 == 5   \* the Pool cell's ranges hold at most MaxLen27 numbers

\* number_range = range(l, l + n) and NBR_PROCESSES = w
Init27 ==
    \E l \in 1..MaxLo, n \in 0..MaxLen27, w \in 0..MaxW :
        /\ lo = l
        /\ hi = l + n
        /\ NBR_PROCESSES = w
        /\ primes = <<>>
        /\ pc = "pool_cell"
        /\ PipelineIdle
        /\ PoolIdle
        /\ PoolCellIdle
        /\ CythonIdle
        /\ MonteCarloIdle
        /\ PrangeIdle

Spec27 == Init27 /\ [][Next27]_vars

(***************************************************************************)
(* C27: when the Pool cell is done, are_primes holds check_prime of each   *)
(* number of the range at that number's index, and primes is the serial    *)
(* loop's list, element for element, for every number of pool processes    *)
(* the Pool accepts and whichever process ran which task.                  *)
(***************************************************************************)
C27_PoolEqualsSerial ==
    pc \in {"compress", "done"} =>
        /\ Len(are_primes) = Len(number_range)
        /\ \A i \in 1..Len(are_primes) :
               are_primes[i] = PyBool(check_prime(number_range[i]))
        /\ pc = "done" => primes = SerialPrimes(lo, hi)

\* the Pool cell done, by two or more processes, with two or more primes
\* and a number that is none between them
C27_Witness ==
    /\ pc = "done"
    /\ NBR_PROCESSES >= 2
    /\ Len(primes) >= 2
    /\ \E i \in 1..Len(are_primes) : are_primes[i] = PyBool(FALSE)

(***************************************************************************)
(* The Monte Carlo cells: pool = Pool(processes=number_parallel_blocks),   *)
(* number_trials_per_process = [number_samples_in_total /                  *)
(* number_parallel_blocks] * number_parallel_blocks, pool.map of           *)
(* estimate_number_points_in_quarter_circle over that list, and            *)
(* pi_estimate = sum(number_in_unit_circles) * 4 / number_samples_in_total.*)
(* A float quotient a / b of two ints is kept as the pair <<a, b>>.  The   *)
(* list has as many items as the pool has processes, so pool.map's tasks   *)
(* hold one item each (chunksize 1).  The function's locals step and       *)
(* number_trials_in_quarter_circle are kept per call, that is per task.    *)
(***************************************************************************)
MaxSamples == 7     \* number_samples_in_total is 1..MaxSamples
MaxBlocks == 3      \* number_parallel_blocks is 1..MaxBlocks
Grid == 2           \* random.uniform(0, 1) draws one of 0/Grid .. Grid/Grid

\* a / b
true_div(a, b) == <<a, b>>

\* an int() that rounds up
int_of_float_rounding_up(q) == (q[1] + q[2] - 1) \div q[2]

\* int(q) for a quotient q >= 0: truncation
int_of_float(q) == q[1] \div q[2]

\* x * x + y * y <= 1.0 for x = i / Grid and y = j / Grid
is_in_unit_circle(i, j) == i * i + j * j <= Grid * Grid

\* sum(list) of a list of ints
RECURSIVE sum(_)
sum(list) == IF list = <<>> THEN 0 ELSE Head(list).int + sum(Tail(list))

\* pool = Pool(processes=number_parallel_blocks) and the list of trials
MonteCarloCreate ==
    /\ pc = "pi_cell"
    /\ holding' = [p \in 1..number_parallel_blocks |-> 0]
    /\ monte_carlo' =
           [monte_carlo EXCEPT !.number_trials_per_process =
               [i \in 1..number_parallel_blocks |->
                   true_div(number_samples_in_total,
                            number_parallel_blocks)]]
    /\ pc' = "pi_map_call"
    /\ UNCHANGED <<lo, hi, NBR_PROCESSES, primes, next_task, pool_cell,
                   pipeline_cell, cython_cells, prange_cell>>

\* pool.map(estimate_number_points_in_quarter_circle, ...) is called
MonteCarloMapCall ==
    /\ pc = "pi_map_call"
    /\ monte_carlo' =
           [monte_carlo EXCEPT
               !.number_in_unit_circles =
                   [i \in 1..Len(number_trials_per_process) |-> None],
               !.step = [i \in 1..Len(number_trials_per_process) |-> 0],
               !.number_trials_in_quarter_circle =
                   [i \in 1..Len(number_trials_per_process) |-> 0]]
    /\ next_task' = 1
    /\ pc' = "pi_map_wait"
    /\ UNCHANGED <<lo, hi, NBR_PROCESSES, primes, holding, pool_cell,
                   pipeline_cell, cython_cells, prange_cell>>

\* a free pool process takes the next task and calls the function:
\* number_trials_in_quarter_circle = 0
MonteCarloTake(p) ==
    /\ pc = "pi_map_wait"
    /\ holding[p] = 0
    /\ next_task <= Len(number_trials_per_process)
    /\ holding' = [holding EXCEPT ![p] = next_task]
    /\ next_task' = next_task + 1
    /\ UNCHANGED <<lo, hi, NBR_PROCESSES, primes, pc, pool_cell,
                   monte_carlo_cells, pipeline_cell,
                   cython_cells, prange_cell>>

\* one iteration of `for step in range(int(number_estimates))`
Trial(p) ==
    /\ pc = "pi_map_wait"
    /\ holding[p] # 0
    /\ step[holding[p]] <
           int_of_float(number_trials_per_process[holding[p]])
    /\ \E x \in 0..Grid, y \in 0..Grid :
           monte_carlo' =
               [monte_carlo EXCEPT
                   !.number_trials_in_quarter_circle =
                       [number_trials_in_quarter_circle
                            EXCEPT ![holding[p]] =
                                @ + (IF is_in_unit_circle(x, y)
                                     THEN 1 ELSE 0)],
                   !.step = [step EXCEPT ![holding[p]] = @ + 1]]
    /\ UNCHANGED <<lo, hi, NBR_PROCESSES, primes, pc, pool_state, pool_cell,
                   pipeline_cell, cython_cells, prange_cell>>

\* return number_trials_in_quarter_circle: the result is stored in
\* pool.map's list
MonteCarloReturn(p) ==
    /\ pc = "pi_map_wait"
    /\ holding[p] # 0
    /\ step[holding[p]] =
           int_of_float(number_trials_per_process[holding[p]])
    /\ monte_carlo' =
           [monte_carlo EXCEPT !.number_in_unit_circles =
               StoreResults(number_in_unit_circles, {holding[p]},
                            [i \in {holding[p]} |->
                                PyInt(number_trials_in_quarter_circle[i])])]
    /\ holding' = [holding EXCEPT ![p] = 0]
    /\ UNCHANGED <<lo, hi, NBR_PROCESSES, primes, pc, next_task, pool_cell,
                   pipeline_cell, cython_cells, prange_cell>>

\* pool.map returns: every result is there
MonteCarloMapReturns ==
    /\ pc = "pi_map_wait"
    /\ \A i \in 1..Len(number_in_unit_circles) :
           number_in_unit_circles[i] # None
    /\ pc' = "pi_estimate"
    /\ UNCHANGED <<lo, hi, NBR_PROCESSES, primes, pool_state, pool_cell,
                   monte_carlo_cells, pipeline_cell,
                   cython_cells, prange_cell>>

\* pi_estimate = sum(number_in_unit_circles) * 4 / number_samples_in_total
PiEstimate ==
    /\ pc = "pi_estimate"
    /\ monte_carlo' =
           [monte_carlo EXCEPT !.pi_estimate =
               true_div(sum(number_in_unit_circles) * 4,
                        number_samples_in_total)]
    /\ pc' = "done"
    /\ UNCHANGED <<lo, hi, NBR_PROCESSES, primes, pool_state, pool_cell,
                   pipeline_cell, cython_cells, prange_cell>>

Next28 ==
    \/ MonteCarloCreate
    \/ MonteCarloMapCall
    \/ \E p \in 1..number_parallel_blocks : MonteCarloTake(p)
    \/ \E p \in 1..number_parallel_blocks : Trial(p)
    \/ \E p \in 1..number_parallel_blocks : MonteCarloReturn(p)
    \/ MonteCarloMapReturns
    \/ PiEstimate

Init28 ==
    \E total \in 1..MaxSamples, blocks \in 1..MaxBlocks :
        /\ monte_carlo = MonteCarloInputs(total, blocks)
        /\ pc = "pi_cell"
        /\ lo = 0
        /\ hi = 0
        /\ NBR_PROCESSES = 0
        /\ primes = <<>>
        /\ PipelineIdle
        /\ PoolIdle
        /\ PoolCellIdle
        /\ CythonIdle
        /\ PrangeIdle

Spec28 == Init28 /\ [][Next28]_vars

(***************************************************************************)
(* C28: once pool.map has returned, number_in_unit_circles has             *)
(* number_parallel_blocks entries, as many as number_trials_per_process;   *)
(* its i-th entry is the count of the call on the i-th entry of that       *)
(* list, and lies between 0 and that call's number of trials; and          *)
(* pi_estimate, once computed, lies between 0 and 4.                       *)
(***************************************************************************)
C28_CountsAndEstimateBounded ==
    /\ pc \in {"pi_estimate", "done"} =>
           /\ Len(number_in_unit_circles) = number_parallel_blocks
           /\ Len(number_in_unit_circles) = Len(number_trials_per_process)
           /\ \A i \in 1..Len(number_in_unit_circles) :
                  /\ number_in_unit_circles[i] =
                         PyInt(number_trials_in_quarter_circle[i])
                  /\ number_in_unit_circles[i].int >= 0
                  /\ number_in_unit_circles[i].int <=
                         int_of_float(number_trials_per_process[i])
                  /\ number_in_unit_circles[i].int <= step[i]
    /\ (pc = "done" /\ pi_estimate # None) =>
           /\ pi_estimate[2] > 0
           /\ 0 <= pi_estimate[1]
           /\ pi_estimate[1] <= 4 * pi_estimate[2]

\* an estimate made from several tasks with different counts, some trials
\* inside and some outside the circle
C28_Witness ==
    /\ pc = "done"
    /\ number_parallel_blocks >= 2
    /\ \E i, j \in 1..Len(number_in_unit_circles) :
           number_in_unit_circles[i].int < number_in_unit_circles[j].int
    /\ 0 < pi_estimate[1]
    /\ pi_estimate[1] < 4 * pi_estimate[2]

\* the trials performed by the first n calls together
RECURSIVE TrialsPerformed(_)
TrialsPerformed(n) == IF n = 0 THEN 0 ELSE step[n] + TrialsPerformed(n - 1)

(***************************************************************************)
(* C29: once pool.map has returned, the trials performed by all the calls  *)
(* together are number_samples_in_total, the number pi_estimate divides    *)
(* by.                                                                     *)
(***************************************************************************)
C29_TrialsSumToTotal ==
    pc \in {"pi_estimate", "done"} =>
        TrialsPerformed(Len(step)) = number_samples_in_total

\* what holds instead: each call performs the quotient rounded down, so
\* the trials performed are the greatest multiple of
\* number_parallel_blocks that is at most number_samples_in_total
C29_TrialsAreRoundedDown ==
    pc \in {"pi_estimate", "done"} =>
        /\ TrialsPerformed(Len(step)) =
               number_parallel_blocks *
                   (number_samples_in_total \div number_parallel_blocks)
        /\ TrialsPerformed(Len(step)) <= number_samples_in_total

(***************************************************************************)
(* The prange cells: standard_range_test(A) and prange_test(A) on a 1D     *)
(* array of fixed-width signed integers.  Both accumulate in a signed      *)
(* integer of the array's width, which wraps on overflow (int64 in the     *)
(* notebook; IntBits bits here).  In prange_test every thread adds the     *)
(* A[i] of the iterations it is given to a private copy of s that starts   *)
(* at 0; when the loop is over the copies are added to s, in any order.    *)
(***************************************************************************)
IntBits == 3        \* width of the array's integers
MaxLen30 == 3       \* A.shape[0] is 0..MaxLen30
MaxThreads == 2     \* the loop runs on 1..MaxThreads threads

Pow2(n) == 2 ^ n

IntMin == -Pow2(IntBits - 1)

IntMax == Pow2(IntBits - 1) - 1

\* the values the elements of A are drawn from
AValues == {IntMin, -1, 1, IntMax}

\* an addition that stops at the ends of the range
add_saturating(a, b) ==
    IF a + b > IntMax THEN IntMax
    ELSE IF a + b < IntMin THEN IntMin
    ELSE a + b

\* a + b in a signed integer of IntBits bits
add(a, b) == ((a + b - IntMin) % Pow2(IntBits)) + IntMin

\* s = 0; for i in range(A.shape[0]): s += A[i]; return s
RECURSIVE range_loop(_, _, _)
range_loop(array, i, acc) ==
    IF i > Len(array) THEN acc
    ELSE range_loop(array, i + 1, add(acc, array[i]))

standard_range_test(array) == range_loop(array, 1, 0)

Threads == 1..Len(partial)

\* s = 0, and the parallel loop starts
PrangeStart ==
    /\ pc = "prange_cell"
    /\ s_prange' = 0
    /\ pc' = "prange_loop"
    /\ UNCHANGED <<lo, hi, NBR_PROCESSES, primes, A, iterated, partial,
                   combined, s_range, pipeline_cell,
                   cython_cells, pool_state, pool_cell,
                   monte_carlo_cells>>

\* thread t runs iteration i of `for i in prange(A.shape[0])`: s += A[i]
\* on its private copy
PrangeIterate(t, i) ==
    /\ pc = "prange_loop"
    /\ i \notin iterated
    /\ partial' = [partial EXCEPT ![t] = add(@, A[i])]
    /\ iterated' = iterated \cup {i}
    /\ UNCHANGED <<lo, hi, NBR_PROCESSES, primes, pc, A, combined,
                   s_prange, s_range, pipeline_cell,
                   cython_cells, pool_state, pool_cell,
                   monte_carlo_cells>>

\* every iteration has run
PrangeLoopEnds ==
    /\ pc = "prange_loop"
    /\ iterated = 1..Len(A)
    /\ pc' = "prange_reduce"
    /\ UNCHANGED <<lo, hi, NBR_PROCESSES, primes, prange_cell,
                   pipeline_cell,
                   cython_cells, pool_state, pool_cell, monte_carlo_cells>>

\* the reduction adds thread t's copy to s
PrangeCombine(t) ==
    /\ pc = "prange_reduce"
    /\ t \notin combined
    /\ s_prange' = add(s_prange, partial[t])
    /\ combined' = combined \cup {t}
    /\ UNCHANGED <<lo, hi, NBR_PROCESSES, primes, pc, A, iterated, partial,
                   s_range, pipeline_cell, cython_cells, pool_state, pool_cell,
                   monte_carlo_cells>>

\* return s
PrangeReturns ==
    /\ pc = "prange_reduce"
    /\ combined = Threads
    /\ pc' = "range_call"
    /\ UNCHANGED <<lo, hi, NBR_PROCESSES, primes, prange_cell,
                   pipeline_cell,
                   cython_cells, pool_state, pool_cell, monte_carlo_cells>>

\* standard_range_test(A) on the same array
StandardRange ==
    /\ pc = "range_call"
    /\ s_range' = standard_range_test(A)
    /\ pc' = "done"
    /\ UNCHANGED <<lo, hi, NBR_PROCESSES, primes, A, iterated, partial,
                   combined, s_prange, pipeline_cell,
                   cython_cells, pool_state, pool_cell,
                   monte_carlo_cells>>

Next30 ==
    \/ PrangeStart
    \/ \E t \in Threads, i \in 1..Len(A) : PrangeIterate(t, i)
    \/ PrangeLoopEnds
    \/ \E t \in Threads : PrangeCombine(t)
    \/ PrangeReturns
    \/ StandardRange

Init30 ==
    \E n \in 0..MaxLen30, k \in 1..MaxThreads :
        \E array \in [1..n -> AValues] :
            /\ A = array
            /\ iterated = {}
            /\ partial = [t \in 1..k |-> 0]
            /\ combined = {}
            /\ s_prange = 0
            /\ s_range = 0
            /\ pc = "prange_cell"
            /\ lo = 0
            /\ hi = 0
            /\ NBR_PROCESSES = 0
            /\ primes = <<>>
            /\ PipelineIdle
            /\ PoolIdle
            /\ PoolCellIdle
            /\ CythonIdle
            /\ MonteCarloIdle

Spec30 == Init30 /\ [][Next30]_vars

\* the sum of the elements as unbounded integers
RECURSIVE ExactSum(_)
ExactSum(array) ==
    IF array = <<>> THEN 0 ELSE Head(array) + ExactSum(Tail(array))

cython_n == 30

\* every thread updating the same copy
Copy_shared(t) == 1

\* the copy of sum that thread t updates: its own
Copy(t) == t

\* the next iteration of prange(n) to hand out
NextIteration == Cardinality(iterated)

\* sum = 0, and the parallel loop starts
CythonStart ==
    /\ pc = "cython_cell"
    /\ s_prange' = 0
    /\ pc' = "cython_loop"
    /\ UNCHANGED <<lo, hi, NBR_PROCESSES, primes, A, iterated, partial,
                   combined, s_range, cython_cells, pipeline_cell,
                   pool_state, pool_cell, monte_carlo_cells>>

\* thread t takes iteration i and reads the copy it updates
CythonRead(t) ==
    /\ pc = "cython_loop"
    /\ in_flight[t] = None
    /\ NextIteration < cython_n
    /\ in_flight' = [in_flight EXCEPT ![t] =
                         [i |-> NextIteration, read |-> partial[Copy(t)]]]
    /\ iterated' = iterated \cup {NextIteration}
    /\ UNCHANGED <<lo, hi, NBR_PROCESSES, primes, pc, A, partial, combined,
                   s_prange, s_range, fib, pipeline_cell,
                   pool_state, pool_cell, monte_carlo_cells>>

\* thread t writes the value it read plus i
CythonWrite(t) ==
    /\ pc = "cython_loop"
    /\ in_flight[t] # None
    /\ partial' = [partial EXCEPT ![Copy(t)] =
                       in_flight[t].read + in_flight[t].i]
    /\ in_flight' = [in_flight EXCEPT ![t] = None]
    /\ UNCHANGED <<lo, hi, NBR_PROCESSES, primes, pc, A, iterated, combined,
                   s_prange, s_range, fib, pipeline_cell,
                   pool_state, pool_cell, monte_carlo_cells>>

\* every iteration has run
CythonLoopEnds ==
    /\ pc = "cython_loop"
    /\ NextIteration = cython_n
    /\ \A t \in Threads : in_flight[t] = None
    /\ pc' = "cython_reduce"
    /\ UNCHANGED <<lo, hi, NBR_PROCESSES, primes, prange_cell, cython_cells,
                   pipeline_cell, pool_state, pool_cell, monte_carlo_cells>>

\* the reduction adds thread t's copy to sum
CythonCombine(t) ==
    /\ pc = "cython_reduce"
    /\ t \notin combined
    /\ s_prange' = s_prange + partial[t]
    /\ combined' = combined \cup {t}
    /\ UNCHANGED <<lo, hi, NBR_PROCESSES, primes, pc, A, iterated, partial,
                   s_range, cython_cells, pipeline_cell, pool_state,
                   pool_cell, monte_carlo_cells>>

\* print(sum)
CythonPrint ==
    /\ pc = "cython_reduce"
    /\ combined = Threads
    /\ pc' = "done"
    /\ UNCHANGED <<lo, hi, NBR_PROCESSES, primes, prange_cell, cython_cells,
                   pipeline_cell, pool_state, pool_cell, monte_carlo_cells>>

Next31 ==
    \/ CythonStart
    \/ \E t \in Threads : CythonRead(t)
    \/ \E t \in Threads : CythonWrite(t)
    \/ CythonLoopEnds
    \/ \E t \in Threads : CythonCombine(t)
    \/ CythonPrint

\* the cell run on 1..MaxThreads threads
Init31 ==
    \E k \in 1..MaxThreads :
        /\ partial = [t \in 1..k |-> 0]
        /\ in_flight = [t \in 1..k |-> None]
        /\ iterated = {}
        /\ combined = {}
        /\ s_prange = 0
        /\ A = <<>>
        /\ s_range = 0
        /\ fib = [call |-> None, returned |-> None]
        /\ pc = "cython_cell"
        /\ lo = 0
        /\ hi = 0
        /\ NBR_PROCESSES = 0
        /\ primes = <<>>
        /\ PipelineIdle
        /\ PoolIdle
        /\ PoolCellIdle
        /\ MonteCarloIdle

Spec31 == Init31 /\ [][Next31]_vars

(***************************************************************************)
(* C31: the Cython prange cell prints 435, the sum of 0..29, whichever     *)
(* thread ran which iteration and however the threads' reads and writes    *)
(* interleave; at every moment of the loop the private copies and the      *)
(* updates in progress hold the sum of the iterations handed out, so no    *)
(* update is lost.                                                         *)
(***************************************************************************)
RECURSIVE SumBelow(_)
SumBelow(k) == IF k <= 0 THEN 0 ELSE (k - 1) + SumBelow(k - 1)

RECURSIVE CopiesTotal(_)
CopiesTotal(t) == IF t = 0 THEN 0 ELSE partial[t] + CopiesTotal(t - 1)

RECURSIVE InProgressTotal(_)
InProgressTotal(t) ==
    IF t = 0 THEN 0
    ELSE (IF in_flight[t] = None THEN 0 ELSE in_flight[t].i)
             + InProgressTotal(t - 1)

C31_PrintsSumOfRange ==
    /\ pc = "cython_loop" =>
           CopiesTotal(Len(partial)) + InProgressTotal(Len(partial))
               = SumBelow(NextIteration)
    /\ pc = "done" =>
           /\ s_prange = 435
           /\ s_prange = SumBelow(cython_n)

\* the cell has printed after two threads each ran part of the iterations
C31_Witness ==
    /\ pc = "done"
    /\ Len(partial) >= 2
    /\ partial[1] > 0
    /\ partial[2] > 0
    /\ s_prange = 435

(***************************************************************************)
(* The two fib cells (Part4_CythonOpenMP.ipynb): the Python fib(n) and     *)
(* the Cython fib(int n), on the same argument.  Both keep a and b as      *)
(* doubles (a Python float is a C double) and run `a, b = a + b, a` once   *)
(* for every i of range(n), which is empty for n <= 0; the Cython one      *)
(* keeps n and i as C ints.  fib_call holds the locals of the call that    *)
(* is running, fib_returned the argument and what each call returned.      *)
(* Every number of the model lies inside a C int and is a whole number     *)
(* below 2^53, so a double holds it exactly.                               *)
(***************************************************************************)
MinN32 == 3
MaxN32 == 20

PyFloat(x) == [float |-> x]

\* a = a + b; b = a, one assignment after the other
NextPair_in_sequence(a, b) == <<a + b, a + b>>

\* a, b = a + b, a
NextPair(a, b) == <<a + b, a>>

\* def fib(n): a = 0.0; b = 1.0
PyFibCall ==
    /\ pc = "fib_cells"
    /\ fib_call = None
    /\ fib_returned.python = None
    /\ fib' = [fib EXCEPT !.call =
                   [def |-> "python", n |-> fib_returned.n, i |-> 0,
                    a |-> 0, b |-> 1]]
    /\ UNCHANGED <<lo, hi, NBR_PROCESSES, primes, pc, prange_cell, in_flight,
                   pipeline_cell, pool_state, pool_cell, monte_carlo_cells>>

\* for i in range(n): a, b = a + b, a
PyFibIterate ==
    /\ pc = "fib_cells"
    /\ fib_call # None
    /\ fib_call.def = "python"
    /\ fib_call.i < fib_call.n
    /\ fib' = [fib EXCEPT !.call =
                   [fib_call EXCEPT
                        !.a = NextPair(fib_call.a, fib_call.b)[1],
                        !.b = NextPair(fib_call.a, fib_call.b)[2],
                        !.i = fib_call.i + 1]]
    /\ UNCHANGED <<lo, hi, NBR_PROCESSES, primes, pc, prange_cell, in_flight,
                   pipeline_cell, pool_state, pool_cell, monte_carlo_cells>>

\* return a
PyFibReturn ==
    /\ pc = "fib_cells"
    /\ fib_call # None
    /\ fib_call.def = "python"
    /\ fib_call.i >= fib_call.n
    /\ fib' = [call |-> None,
               returned |-> [fib_returned EXCEPT
                                 !.python = PyFloat(fib_call.a)]]
    /\ UNCHANGED <<lo, hi, NBR_PROCESSES, primes, pc, prange_cell, in_flight,
                   pipeline_cell, pool_state, pool_cell, monte_carlo_cells>>

\* def fib(int n): cdef int i; cdef double a = 0.0; cdef double b = 1.0
CyFibCall ==
    /\ pc = "fib_cells"
    /\ fib_call = None
    /\ fib_returned.cython = None
    /\ fib' = [fib EXCEPT !.call =
                   [def |-> "cython", n |-> fib_returned.n, i |-> 0,
                    a |-> 0, b |-> 1]]
    /\ UNCHANGED <<lo, hi, NBR_PROCESSES, primes, pc, prange_cell, in_flight,
                   pipeline_cell, pool_state, pool_cell, monte_carlo_cells>>

\* for i in range(n): a, b = a + b, a   (a C loop: i = 0; i < n; i++)
CyFibIterate ==
    /\ pc = "fib_cells"
    /\ fib_call # None
    /\ fib_call.def = "cython"
    /\ fib_call.i < fib_call.n
    /\ fib' = [fib EXCEPT !.call =
                   [fib_call EXCEPT
                        !.a = NextPair(fib_call.a, fib_call.b)[1],
                        !.b = NextPair(fib_call.a, fib_call.b)[2],
                        !.i = fib_call.i + 1]]
    /\ UNCHANGED <<lo, hi, NBR_PROCESSES, primes, pc, prange_cell, in_flight,
                   pipeline_cell, pool_state, pool_cell, monte_carlo_cells>>

\* return a: the double becomes a Python float
CyFibReturn ==
    /\ pc = "fib_cells"
    /\ fib_call # None
    /\ fib_call.def = "cython"
    /\ fib_call.i >= fib_call.n
    /\ fib' = [call |-> None,
               returned |-> [fib_returned EXCEPT
                                 !.cython = PyFloat(fib_call.a)]]
    /\ UNCHANGED <<lo, hi, NBR_PROCESSES, primes, pc, prange_cell, in_flight,
                   pipeline_cell, pool_state, pool_cell, monte_carlo_cells>>

Next32 ==
    \/ PyFibCall
    \/ PyFibIterate
    \/ PyFibReturn
    \/ CyFibCall
    \/ CyFibIterate
    \/ CyFibReturn

\* both functions are to be called with the same n of -MinN32..MaxN32
Init32 ==
    \E n \in (0 - MinN32)..MaxN32 :
        /\ fib = [call |-> None,
                  returned |-> [n |-> n, python |-> None, cython |-> None]]
        /\ in_flight = <<>>
        /\ pc = "fib_cells"
        /\ lo = 0
        /\ hi = 0
        /\ NBR_PROCESSES = 0
        /\ primes = <<>>
        /\ PipelineIdle
        /\ PoolIdle
        /\ PoolCellIdle
        /\ MonteCarloIdle
        /\ PrangeIdle

Spec32 == Init32 /\ [][Next32]_vars

\* the k-th Fibonacci number: 0, 1, 1, 2, 3, 5, ...
RECURSIVE Fibonacci(_)
Fibonacci(k) ==
    IF k = 0 THEN 0
    ELSE IF k = 1 THEN 1
    ELSE Fibonacci(k - 1) + Fibonacci(k - 2)

(***************************************************************************)
(* C32: for every n of -MinN32..MaxN32 the Python fib and the Cython fib   *)
(* return the same value; for n <= 0 it is 0.0 and for n >= 0 it is the    *)
(* n-th Fibonacci number, counted from fib(0) = 0 and fib(1) = 1.          *)
(***************************************************************************)
C32_SameFibonacciNumber ==
    /\ (fib_returned.python # None /\ fib_returned.cython # None) =>
           fib_returned.python = fib_returned.cython
    /\ \A def \in {"python", "cython"} :
           fib_returned[def] # None =>
               /\ fib_returned.n <= 0 => fib_returned[def] = PyFloat(0)
               /\ fib_returned.n >= 0 =>
                      fib_returned[def] = PyFloat(Fibonacci(fib_returned.n))
               /\ fib_returned.n = 1 => fib_returned[def] = PyFloat(1)

\* both have returned the 10th Fibonacci number, 55
C32_Witness ==
    /\ fib_returned.n = 10
    /\ fib_returned.python = PyFloat(55)
    /\ fib_returned.cython = PyFloat(55)
    /\ fib_call = None

====
